---- MODULE Spec2Model ----
(***************************************************************************)
(* The storage service of ipfs-embed (sqlite/src/lib.rs): a facade over a  *)
(* content-addressed block store with aliases, temporary pins, an LRU      *)
(* cache tracker, an incremental garbage collector and a channel of        *)
(* removal events.                                                         *)
(*                                                                         *)
(* The facade (StorageConfig, StorageService, IpfsCacheTracker) is         *)
(* translated from sqlite/src/lib.rs.  The block store it drives           *)
(* (put_block, get_block, incremental_gc, incremental_delete_orphaned,     *)
(* the alias and temp-pin tables, the reachability queries) is not part of *)
(* the source tree; it is modelled from the specification's sections 3-5   *)
(* and from what the tests in sqlite/src/lib.rs assert of it.              *)
(***************************************************************************)
EXTENDS Naturals, Sequences, FiniteSets

\* ------------------------------------------------------------------ bounds
\* Blocks the clients may create: create_block(1) .. create_block(MaxCid).
MaxCid == 4
\* Alias names in use (x, y in the tests).
NumNames == 2
\* Temp pin handles that may be live at the same time.
NumPins == 1
\* Blocks inserted as new over a behaviour (stored now or deleted since).
MaxInserts == 3
\* Cids one temp pin may protect at a time.
MaxPinned == 1
\* Largest configured block-count limit tried (the tests use 2).
MaxCacheBlocks == 2
\* The configured byte limit tried besides u64::MAX.
MaxCacheBytes == 3
\* Facade calls followed while the metrics registry is tracked.
MaxQueries == 3
\* Facade calls in flight at the same time.
MaxInFlight == 2

\* ------------------------------------------------------- program constants
\* usize::MAX, the default gc_min_blocks: above every count a pass reaches.
UsizeMax == 2147483647
\* u64::MAX, the default cache_size_bytes: above every size the store reaches.
U64Max == 2147483646
\* Duration::new(u64::MAX, 1_000_000_000 - 1), the default gc_target_duration.
DurationMax == 2147483645

Cids == 1..MaxCid
Names == 1..NumNames
Handles == 1..NumPins

\* Option::None of an alias target.
None == 0
\* No row for a CID in the store: get_block answers None.
NoBlock == <<>>
\* A temp pin slot with no live handle.
NoPin == [live |-> FALSE, cids |-> {}]

VARIABLES
    config,     \* StorageConfig the service was opened with
    blocks,     \* store: cid -> stored bytes, or NoBlock
    aliases,    \* alias table: name -> target cid, or None
    pins,       \* temp pin registry: handle -> [live, cids]
    lru,        \* cache tracker: stored cids, least recently accessed first
    orphaned,   \* block rows whose metadata the GC dropped, not yet reclaimed
    events,     \* StorageEvent::Remove(cid) queued on the channel, oldest first
    deleted,    \* history: cids the GC deleted, in deletion order
    pc,         \* where the caller of evict() is: idle, gc, orphaned, returned
                \* (Ok(())), dropped, aborted, or the error evict() returned
    quiet,      \* history: no insert, alias or pin call since evict() began
    rx,         \* the receiver of the event channel is alive (not dropped)
    metrics,    \* QUERIES_TOTAL, QUERY_DURATION and the last Result handed
                \* to a caller by observe_query
    calls,      \* the facade calls in flight: counted by observe_query and
                \* awaiting their query, or answered and not yet polled again
    shared      \* history: the stored blocks that two alias names have
                \* reached at the same time since they were stored

vars == <<config, blocks, aliases, pins, lru, orphaned, events, deleted, pc, quiet,
          rx, metrics, calls, shared>>

\* ------------------------------------------------------------ blocks
\* tests::create_block: the block of payload i.  Its bytes name the payload
\* and, for i > 1, one link to the block of payload i \div 2
\* (a = 1, b = 2 -> a, c = 3 -> a, 4 -> b).  The cid is the hash of the bytes.
encode(i) == IF i = 1 THEN <<i>> ELSE <<i, i \div 2>>
create_block(i) == [cid |-> i, data |-> encode(i)]

\* Block::new_unchecked(cid, data): a block whose cid is taken as given and
\* not computed from its bytes.  insert takes it as it takes any Block.  With
\* the two below the references close a cycle: block 1 links to block 2,
\* which links to block 1, and block 3 links to itself.
new_unchecked(cid, data) == [cid |-> cid, data |-> data]
UncheckedBlocks == {new_unchecked(1, <<1, 2>>), new_unchecked(3, <<3, 3>>)}

\* References<S::Codecs>: the cids a block's bytes link to.
references(data) == IF Len(data) > 1 THEN {data[2]} ELSE {}

Stored == {c \in Cids : blocks[c] # NoBlock}

\* ------------------------------------------------------------ sequences
RECURSIVE SeqToSet(_)
SeqToSet(s) == IF s = <<>> THEN {} ELSE {Head(s)} \cup SeqToSet(Tail(s))

RECURSIVE Without(_, _)
\* s with every element of set S removed, order kept.
Without(s, S) ==
    IF s = <<>> THEN <<>>
    ELSE IF Head(s) \in S THEN Without(Tail(s), S)
    ELSE <<Head(s)>> \o Without(Tail(s), S)

RECURSIVE SizeOf(_)
\* Total byte size of the stored blocks in set S.
SizeOf(S) ==
    IF S = {} THEN 0
    ELSE LET c == CHOOSE x \in S : TRUE IN Len(blocks[c]) + SizeOf(S \ {c})

\* ------------------------------------------------------------ reachability
\* The GC roots: every alias target and every cid in a live temp pin.
Roots ==
    ({aliases[n] : n \in Names} \ {None})
        \cup UNION {pins[h].cids : h \in {k \in Handles : pins[k].live}}

RECURSIVE descendant_of(_)
\* The cids reachable from set S through the references of stored blocks
\* (a worklist with a visited set: S only grows, within Cids).
descendant_of(S) ==
    LET next == S \cup UNION {references(blocks[c]) : c \in S \cap Stored}
    IN  IF next = S THEN S ELSE descendant_of(next)

\* A cid is protected when it is a root or reachable from one.
Protected == descendant_of(Roots)

\* AsyncBlockStore::reverse_alias: None for an absent block, else the alias
\* names whose target reaches cid.  Names are returned as a set; NoneNames
\* stands for Option::None.
NoneNames == {None}
store_reverse_alias(cid) ==
    IF blocks[cid] = NoBlock THEN NoneNames
    ELSE {n \in Names : aliases[n] # None /\ cid \in descendant_of({aliases[n]})}

\* The stored blocks that two alias names or more reach.
SharedNow == {c \in Stored : Cardinality(store_reverse_alias(c)) >= 2}

\* AsyncBlockStore::get_missing_blocks: the cids referenced from the stored
\* block cid, directly or through stored blocks, that have no stored block;
\* an empty result for an absent cid.
get_missing_blocks(cid) ==
    IF blocks[cid] = NoBlock THEN {} ELSE descendant_of({cid}) \ Stored

\* ------------------------------------------------------------ size targets
\* Mutant of size_targets: the two limits passed in the wrong order.
size_targets_swapped ==
    [count |-> config.cache_size_bytes, size |-> config.cache_size_blocks]

\* StorageService::open: SizeTargets::new(cache_size_blocks, cache_size_bytes).
size_targets ==
    [count |-> config.cache_size_blocks, size |-> config.cache_size_bytes]

\* SizeTargets::exceeded on the store's stats (count, size): either budget
\* is exceeded.
exceeded(count, size) ==
    count > size_targets.count \/ size > size_targets.size

\* A pass's clock against its time budget: every reading is above a zero
\* budget and below the maximal Duration.
elapsed_exceeds(target_duration) == target_duration < DurationMax

\* Mutant of candidates: only the roots themselves are spared, not what they
\* reference.
candidates_roots_only == Without(lru, Roots)

\* The GC's candidates: stored blocks unreachable from every root, ordered by
\* the cache tracker (sort_ids), least recently accessed first.
candidates == Without(lru, Protected)

RECURSIVE gc_loop(_, _, _, _, _, _)
\* One pass over the candidates ids, n deleted so far, the store holding
\* count blocks of size bytes: the cids the pass deletes, in order.  It stops
\* when min_blocks are deleted or the time budget has elapsed, and when the
\* size targets are met.
gc_loop(ids, n, count, size, min_blocks, target_duration) ==
    IF ids = <<>> THEN <<>>
    ELSE IF n >= min_blocks \/ elapsed_exceeds(target_duration) THEN <<>>
    ELSE IF ~exceeded(count, size) THEN <<>>
    ELSE <<Head(ids)>> \o
         gc_loop(Tail(ids), n + 1, count - 1, size - Len(blocks[Head(ids)]),
                 min_blocks, target_duration)

\* AsyncBlockStore::incremental_gc: what one pass deletes and whether it
\* reports done (size targets met, or no candidate left).
incremental_gc(min_blocks, target_duration) ==
    LET ids == candidates
        del == gc_loop(ids, 0, Cardinality(Stored), SizeOf(Stored),
                       min_blocks, target_duration)
        left == Stored \ SeqToSet(del)
    IN  [deleted |-> del,
         done |-> ~exceeded(Cardinality(left), SizeOf(left)) \/ Len(del) = Len(ids)]

\* AsyncBlockStore::incremental_delete_orphaned: how many orphaned rows one
\* pass reclaims and whether it reports done.
incremental_delete_orphaned(min_blocks, target_duration) ==
    LET n == IF elapsed_exceeds(target_duration) THEN 0
             ELSE IF min_blocks < orphaned THEN min_blocks
             ELSE orphaned
    IN  [reclaimed |-> n, done |-> n = orphaned]

\* ------------------------------------------------------------ cache tracker
\* Mutant of blocks_accessed: the access is not forwarded.
blocks_accessed_dropped(cids) == lru' = lru

\* IpfsCacheTracker::blocks_accessed: forwarded to the inner tracker, which
\* makes the accessed cids the most recent ones.
blocks_accessed(cids) ==
    lru' = Without(lru, SeqToSet(cids)) \o cids

RECURSIVE Reverse(_)
Reverse(s) == IF s = <<>> THEN <<>> ELSE Reverse(Tail(s)) \o <<Head(s)>>

\* mpsc::UnboundedSender::unbounded_send(StorageEvent::Remove(cid)).ok(): the
\* event is queued at once when the receiver is alive; it is an error, which
\* .ok() drops, when the receiver is gone.
unbounded_send(queue, cid, alive) == IF alive THEN Append(queue, cid) ELSE queue

\* The loop of blocks_deleted: one send per block, in the order given.  The
\* receiver is alive for the first k sends and gone for the others.
RECURSIVE send_each(_, _, _)
send_each(queue, cids, k) ==
    IF cids = <<>> THEN queue
    ELSE send_each(unbounded_send(queue, Head(cids), k > 0), Tail(cids),
                   IF k > 0 THEN k - 1 ELSE 0)

\* Mutant of blocks_deleted: a send error ends the call.
blocks_deleted_fail_fast(cids, k) ==
    /\ k \in 0..Len(cids)
    /\ rx \/ k = 0
    /\ events' = send_each(events, cids, k)
    /\ rx' = (rx /\ k = Len(cids))
    /\ lru' = IF k = Len(cids) THEN Without(lru, SeqToSet(cids)) ELSE lru

\* Mutant of blocks_deleted: the events are sent last block first.
blocks_deleted_reversed(cids, k) ==
    /\ k \in 0..Len(cids)
    /\ rx \/ k = 0
    /\ events' = send_each(events, Reverse(cids), k)
    /\ rx' = (rx /\ k = Len(cids))
    /\ lru' = Without(lru, SeqToSet(cids))

\* IpfsCacheTracker::blocks_deleted: one Remove per block on tx, in the order
\* given, then forwarded to the inner tracker, which forgets the blocks.
\* Nothing is held across the loop: the owner of the receiver may drop it
\* between two sends, after k of them (k = Len(cids) when the receiver lives
\* through the call, k = 0 when it was gone before).
blocks_deleted(cids, k) ==
    /\ k \in 0..Len(cids)
    /\ rx \/ k = 0
    /\ events' = send_each(events, cids, k)
    /\ rx' = (rx /\ k = Len(cids))
    /\ lru' = Without(lru, SeqToSet(cids))

\* ------------------------------------------------------------ metrics
\* The label values observe_query is called with.
OpNames ==
    {"temp_pin", "assign_temp_pin", "iter", "contains", "get", "insert", "alias",
     "resolve", "reverse_alias", "missing_blocks", "flush"}

\* The error kinds of a store query.
Errors == {"StorageIoError"}

\* Result<T>: Ok(value) or Err(error).  The value sits in the field of its
\* type: bytes (Option<Vec<u8>>, NoBlock for None), flag (bool), set
\* (Vec<Cid>, or Option<Vec<Vec<u8>>> with NoneNames for None), num (Option<Cid>
\* or a temp pin handle); Ok(()) has none.
OkUnit == [ok |-> TRUE, bytes |-> <<>>, flag |-> FALSE, set |-> {}, num |-> 0, err |-> ""]
OkBytes(b) == [OkUnit EXCEPT !.bytes = b]
OkFlag(f) == [OkUnit EXCEPT !.flag = f]
OkSet(S) == [OkUnit EXCEPT !.set = S]
OkNum(n) == [OkUnit EXCEPT !.num = n]
Err(e) == [OkUnit EXCEPT !.ok = FALSE, !.err = e]

\* QUERIES_TOTAL and QUERY_DURATION (the number of samples per label) as the
\* process starts, with no Result handed out yet.
Registry ==
    [tracked |-> TRUE,
     total |-> [n \in OpNames |-> 0],
     samples |-> [n \in OpNames |-> 0],
     res |-> OkUnit]

\* The registry out of view: the counters count, their values are not
\* followed.
Untracked == [Registry EXCEPT !.tracked = FALSE]

RECURSIVE SumOver(_, _)
SumOver(f, S) ==
    IF S = {} THEN 0
    ELSE LET n == CHOOSE x \in S : TRUE IN f[n] + SumOver(f, S \ {n})

\* observe_query before its await: QUERIES_TOTAL of the label is incremented
\* and the timer of the label started.
counted(m, name) == [m EXCEPT !.total[name] = @ + 1]

\* observe_query after its await: observe_duration when the answer is Ok,
\* stop_and_discard when it is Err, and the answer handed to the caller.
returned(m, name, res) ==
    [m EXCEPT !.samples[name] = IF res.ok THEN @ + 1 ELSE @, !.res = res]

\* The timer of a call whose future is dropped at the await: a HistogramTimer
\* that is dropped unobserved records its sample.
timer_dropped(m, name) == [m EXCEPT !.samples[name] = @ + 1]

\* The slots of the calls in flight, and the empty slot.
Slots == 1..MaxInFlight
NoCall == [name |-> "", a |-> 0, b |-> 0, stage |-> "none", res |-> OkUnit]

\* A caller that polls its call through: observe_query counts, the query
\* answers res and observe_query returns it, with no step of another caller
\* in between.
observed(name, res) ==
    /\ metrics.tracked => SumOver(metrics.total, OpNames) < MaxQueries
    /\ metrics' = IF ~metrics.tracked THEN metrics
                  ELSE returned(counted(metrics, name), name, res)
    /\ calls' = calls

\* ------------------------------------------------------------ configuration
\* StorageConfig::new(path, cache_size, gc_interval): the permissive defaults.
StorageConfig_new(cache_size) ==
    [cache_size_blocks |-> cache_size,
     cache_size_bytes |-> U64Max,
     gc_min_blocks |-> UsizeMax,
     gc_target_duration |-> DurationMax]

\* The configurations a service is opened with.  The fields of StorageConfig
\* are public: besides the defaults for each cache size, a budget of one
\* block per pass, a budget of no block and no time, and a byte limit.
Configs ==
    {StorageConfig_new(n) : n \in 0..MaxCacheBlocks}
        \cup {[StorageConfig_new(n) EXCEPT !.gc_min_blocks = 1] :
                  n \in 0..MaxCacheBlocks}
        \cup {[StorageConfig_new(n) EXCEPT !.gc_min_blocks = 0,
                                           !.gc_target_duration = 0] :
                  n \in 0..MaxCacheBlocks}
        \cup {[StorageConfig_new(MaxCacheBlocks) EXCEPT
                  !.cache_size_bytes = MaxCacheBytes]}

\* StorageService::open: an empty store, no alias, no pin, the gc_loop
\* spawned and the caller idle.
Init ==
    /\ config \in Configs
    /\ blocks = [c \in Cids |-> NoBlock]
    /\ aliases = [n \in Names |-> None]
    /\ pins = [h \in Handles |-> NoPin]
    /\ lru = <<>>
    /\ orphaned = 0
    /\ events = <<>>
    /\ deleted = <<>>
    /\ pc = "idle"
    /\ quiet = FALSE
    /\ rx = TRUE
    /\ metrics = Untracked
    /\ calls = [s \in Slots |-> NoCall]
    /\ shared = [tracked |-> FALSE, cids |-> {}]

\* ------------------------------------------------------------ block store
\* AsyncBlockStore::put_block(block, pin): stores the bytes unless the cid is
\* stored already, adds the cid to the temp pin when one is given, and
\* records the access.
put_block(block, pin) ==
    /\ blocks' = [blocks EXCEPT ![block.cid] =
                     IF @ = NoBlock THEN block.data ELSE @]
    /\ pins' = IF pin = None THEN pins
               ELSE [pins EXCEPT ![pin].cids = @ \cup {block.cid}]
    /\ blocks_accessed(<<block.cid>>)
    /\ UNCHANGED <<config, rx, aliases, orphaned, events, deleted>>

\* AsyncBlockStore::get_block(cid): Some(bytes) of a stored block, whose
\* access it records, or None.
get_block_value(cid) == blocks[cid]
get_block(cid) ==
    /\ IF blocks[cid] # NoBlock THEN blocks_accessed(<<cid>>) ELSE lru' = lru
    /\ UNCHANGED <<config, rx, blocks, aliases, pins, orphaned, events, deleted>>

\* Mutant of store_alias: removing a name deletes the block it targeted.
store_alias_deletes(name, cid) ==
    /\ aliases' = [aliases EXCEPT ![name] = cid]
    /\ blocks' = IF cid = None /\ aliases[name] # None
                 THEN [blocks EXCEPT ![aliases[name]] = NoBlock]
                 ELSE blocks
    /\ UNCHANGED <<config, rx, pins, lru, orphaned, events, deleted>>

\* AsyncBlockStore::alias(name, cid): sets the target of the name, or removes
\* the name when cid is None.
store_alias(name, cid) ==
    /\ aliases' = [aliases EXCEPT ![name] = cid]
    /\ UNCHANGED <<config, rx, blocks, pins, lru, orphaned, events, deleted>>

\* AsyncBlockStore::temp_pin: a new live handle protecting nothing.
store_temp_pin(h) ==
    /\ ~pins[h].live
    /\ pins' = [pins EXCEPT ![h] = [live |-> TRUE, cids |-> {}]]
    /\ UNCHANGED <<config, rx, blocks, aliases, lru, orphaned, events, deleted>>

\* AsyncBlockStore::assign_temp_pin(pin, cids): adds the cids to the handle.
store_assign_temp_pin(h, cids) ==
    /\ pins' = [pins EXCEPT ![h].cids = @ \cup cids]
    /\ UNCHANGED <<config, rx, blocks, aliases, lru, orphaned, events, deleted>>

\* Dropping an AsyncTempPin: the handle and its protection are gone.
drop_temp_pin(h) ==
    /\ pins[h].live
    /\ pins' = [pins EXCEPT ![h] = NoPin]
    /\ UNCHANGED <<config, rx, blocks, aliases, lru, orphaned, events, deleted>>

\* ------------------------------------------------------------ facade
\* A call that changes the store or the roots: it ends the quiet period of a
\* running evict() and the "returned" state of a finished one.
Mutation ==
    /\ quiet' = FALSE
    /\ shared' = IF shared.tracked
                 THEN [shared EXCEPT !.cids = @ \cup SharedNow']
                 ELSE shared
    /\ pc' = IF pc = "returned" THEN "idle" ELSE pc

\* Mutant of insert: the caller's temp pin is not passed on.
insert_unpinned(block, pin) ==
    /\ block.cid \in Stored \/ Cardinality(Stored) + Len(deleted) < MaxInserts
    /\ pin # None =>
          /\ pins[pin].live
          /\ Cardinality(pins[pin].cids \cup {block.cid}) <= MaxPinned
    /\ put_block(block, None)
    /\ observed("insert", OkUnit)
    /\ Mutation

\* StorageService::insert(block, alias): put_block with the caller's temp pin.
insert(block, pin) ==
    /\ block.cid \in Stored \/ Cardinality(Stored) + Len(deleted) < MaxInserts
    /\ pin # None =>
          /\ pins[pin].live
          /\ Cardinality(pins[pin].cids \cup {block.cid}) <= MaxPinned
    /\ put_block(block, pin)
    /\ observed("insert", OkUnit)
    /\ Mutation

\* Mutant of get_returns: Some of the key instead of the stored bytes.
get_returns_key(cid) ==
    IF get_block_value(cid) = NoBlock THEN NoBlock ELSE <<cid>>

\* StorageService::get(cid): get_block, whose answer is returned as it is.
get_returns(cid) == get_block_value(cid)
get(cid) ==
    /\ get_block(cid)
    /\ observed("get", OkBytes(get_block_value(cid)))
    /\ UNCHANGED <<pc, quiet, shared>>

\* Mutant of alias: removing a name removes every name with the same target.
alias_removes_target(name, cid) ==
    /\ IF cid = None
       THEN /\ aliases' = [n \in Names |->
                              IF aliases[n] = aliases[name] THEN None
                              ELSE aliases[n]]
            /\ UNCHANGED <<config, rx, blocks, pins, lru, orphaned, events, deleted>>
       ELSE store_alias(name, cid)
    /\ observed("alias", OkUnit)
    /\ Mutation

\* Mutant of alias: a name that has another target is cleared, not retargeted.
alias_clears_first(name, cid) ==
    /\ store_alias(name, IF aliases[name] \in {None, cid} THEN cid ELSE None)
    /\ observed("alias", OkUnit)
    /\ Mutation

\* StorageService::alias(alias, cid).
alias(name, cid) ==
    /\ store_alias(name, cid)
    /\ observed("alias", OkUnit)
    /\ Mutation

\* StorageService::resolve(alias).
resolve(name) == aliases[name]

\* Mutant of reverse_alias: only the names that target cid itself.
reverse_alias_direct(cid) ==
    IF blocks[cid] = NoBlock THEN NoneNames
    ELSE {n \in Names : aliases[n] = cid}

\* Mutant of reverse_alias: an absent block answers the empty list.
reverse_alias_unwrapped(cid) ==
    IF store_reverse_alias(cid) = NoneNames THEN {} ELSE store_reverse_alias(cid)

\* StorageService::reverse_alias(cid).
reverse_alias(cid) == store_reverse_alias(cid)

\* Mutant of missing_blocks: only the direct references are looked at.
missing_blocks_direct(cid) ==
    IF blocks[cid] = NoBlock THEN {} ELSE references(blocks[cid]) \ Stored

\* StorageService::missing_blocks(cid).
missing_blocks(cid) == get_missing_blocks(cid)

\* StorageService::contains(cid) and StorageService::iter.
contains(cid) == blocks[cid] # NoBlock
iter == Stored

\* StorageService::temp_pin.
temp_pin(h) ==
    /\ store_temp_pin(h)
    /\ observed("temp_pin", OkNum(h))
    /\ Mutation

\* StorageService::assign_temp_pin(temp, iter).
assign_temp_pin(h, cids) ==
    /\ pins[h].live
    /\ Cardinality(pins[h].cids \cup cids) <= MaxPinned
    /\ store_assign_temp_pin(h, cids)
    /\ observed("assign_temp_pin", OkUnit)
    /\ Mutation

\* The facade calls that only read the store.
ReadOnly == {"iter", "contains", "resolve", "reverse_alias", "missing_blocks", "flush"}

\* The facade calls of a client, as label and arguments: insert(block a, pin
\* b), get(a), alias(name a, target b), temp_pin (the handle a it will
\* answer), assign_temp_pin(pin a, {b}), contains(a), iter, resolve(a),
\* reverse_alias(a), missing_blocks(a), flush.
Requests ==
    {[name |-> "insert", a |-> c, b |-> p] : c \in Cids, p \in Handles \cup {None}}
        \cup {[name |-> "alias", a |-> 1, b |-> t] : t \in Cids \cup {None}}
        \cup {[name |-> "temp_pin", a |-> h, b |-> 0] : h \in Handles}
        \cup {[name |-> "assign_temp_pin", a |-> h, b |-> c] :
                  h \in Handles, c \in Cids}
        \cup {[name |-> n, a |-> c, b |-> 0] :
                  n \in {"get", "contains", "reverse_alias", "missing_blocks"},
                  c \in Cids}
        \cup {[name |-> "resolve", a |-> n, b |-> 0] : n \in Names}
        \cup {[name |-> n, a |-> 0, b |-> 0] : n \in {"iter", "flush"}}

\* The store call a facade call awaits, as the blocking thread runs it.
store_query(name, a, b) ==
    \/ /\ name = "insert"
       /\ a \in Stored \/ Cardinality(Stored) + Len(deleted) < MaxInserts
       /\ b # None => Cardinality(pins[b].cids \cup {a}) <= MaxPinned
       /\ put_block(create_block(a), b)
       /\ Mutation
    \/ /\ name = "get"
       /\ get_block(a)
       /\ UNCHANGED <<pc, quiet, shared>>
    \/ /\ name = "alias"
       /\ store_alias(a, b)
       /\ Mutation
    \/ /\ name = "temp_pin"
       /\ store_temp_pin(a)
       /\ Mutation
    \/ /\ name = "assign_temp_pin"
       /\ Cardinality(pins[a].cids \cup {b}) <= MaxPinned
       /\ store_assign_temp_pin(a, {b})
       /\ Mutation
    \/ /\ name \in ReadOnly
       /\ UNCHANGED <<config, rx, blocks, aliases, pins, lru, orphaned, events,
                      deleted, pc, quiet, shared>>

\* What the store call answers, from the store as the call finds it.
answer(name, a, b) ==
    CASE name = "get" -> OkBytes(get_returns(a))
      [] name = "temp_pin" -> OkNum(a)
      [] name = "contains" -> OkFlag(contains(a))
      [] name = "iter" -> OkSet(iter)
      [] name = "resolve" -> OkNum(resolve(a))
      [] name = "reverse_alias" -> OkSet(reverse_alias(a))
      [] name = "missing_blocks" -> OkSet(missing_blocks(a))
      [] OTHER -> OkUnit

\* observe_query(name, query), first poll: the call is counted, its timer
\* started, and the query handed to the blocking thread; the future waits at
\* query.await.
observe_query_counts(s, q) ==
    /\ calls[s] = NoCall
    /\ \A t \in Slots : t < s => calls[t] # NoCall
    /\ SumOver(metrics.total, OpNames) < MaxQueries
    /\ q.name = "insert" /\ q.b # None =>
          /\ pins[q.b].live
          /\ \A t \in Slots : calls[t].name # "temp_pin" \/ calls[t].a # q.b
    /\ q.name = "assign_temp_pin" =>
          /\ pins[q.a].live
          /\ \A t \in Slots : calls[t].name # "temp_pin" \/ calls[t].a # q.a
    /\ q.name = "temp_pin" =>
          \A t \in Slots : calls[t].name # "temp_pin" \/ calls[t].a # q.a
    /\ metrics' = counted(metrics, q.name)
    /\ calls' = [calls EXCEPT ![s] = [name |-> q.name, a |-> q.a, b |-> q.b,
                                      stage |-> "counted", res |-> OkUnit]]
    /\ UNCHANGED <<config, rx, blocks, aliases, pins, lru, orphaned, events,
                   deleted, pc, quiet, shared>>

\* The blocking thread runs the query of a call in flight.  The answer waits
\* for the next poll of the future; when the future is gone the answer is
\* thrown away (an AsyncTempPin that is thrown away is released at once).
query_answers(s) ==
    /\ calls[s].stage \in {"counted", "dropped"}
    /\ IF calls[s].stage = "dropped" /\ calls[s].name = "temp_pin"
       THEN /\ ~pins[calls[s].a].live
            /\ Mutation
            /\ UNCHANGED <<config, rx, blocks, aliases, pins, lru, orphaned,
                           events, deleted>>
       ELSE store_query(calls[s].name, calls[s].a, calls[s].b)
    /\ calls' = [calls EXCEPT ![s] =
                    IF @.stage = "dropped" THEN NoCall
                    ELSE [@ EXCEPT !.stage = "answered",
                                   !.res = answer(calls[s].name, calls[s].a,
                                                  calls[s].b)]]
    /\ UNCHANGED metrics

\* The query of a call in flight answers Err(e): the store is as before.
query_fails(s, e) ==
    /\ calls[s].stage \in {"counted", "dropped"}
    /\ calls' = [calls EXCEPT ![s] =
                    IF @.stage = "dropped" THEN NoCall
                    ELSE [@ EXCEPT !.stage = "answered", !.res = Err(e)]]
    /\ UNCHANGED <<config, rx, metrics, blocks, aliases, pins, lru, orphaned,
                   events, deleted, pc, quiet, shared>>

\* observe_query(name, query), the poll after the query has answered: the
\* duration is sampled or the timer discarded, and the answer returned.
observe_query_returns(s) ==
    /\ calls[s].stage = "answered"
    /\ metrics' = returned(metrics, calls[s].name, calls[s].res)
    /\ calls' = [calls EXCEPT ![s] = NoCall]
    /\ UNCHANGED <<config, rx, blocks, aliases, pins, lru, orphaned, events,
                   deleted, pc, quiet, shared>>

\* observe_query(name, query), its future dropped at query.await: nothing is
\* returned, the timer is dropped with the future, and a query the blocking
\* thread has not run yet still runs.  An answer that waits in the future is
\* dropped with it: an AsyncTempPin that temp_pin has answered is released.
observe_query_dropped(s) ==
    /\ calls[s].stage \in {"counted", "answered"}
    /\ metrics' = timer_dropped(metrics, calls[s].name)
    /\ calls' = [calls EXCEPT ![s] =
                    IF @.stage = "counted" THEN [@ EXCEPT !.stage = "dropped"]
                    ELSE NoCall]
    /\ IF calls[s].name = "temp_pin" /\ calls[s].stage = "answered"
          /\ calls[s].res.ok
       THEN /\ drop_temp_pin(calls[s].a)
            /\ Mutation
       ELSE UNCHANGED <<config, rx, blocks, aliases, pins, lru, orphaned,
                        events, deleted, pc, quiet, shared>>

\* The caller lets go of its AsyncTempPin.
release_temp_pin(h) ==
    /\ drop_temp_pin(h)
    /\ UNCHANGED <<metrics, calls>>
    /\ Mutation

\* ------------------------------------------------------------ GC passes
\* One incremental_gc pass committing: the blocks are gone from the store,
\* their rows are left orphaned, and the cache tracker is told, k of its
\* sends finding the receiver alive.
gc_pass_sending(r, k) ==
    /\ blocks' = [c \in Cids |->
                     IF c \in SeqToSet(r.deleted) THEN NoBlock ELSE blocks[c]]
    /\ orphaned' = orphaned + Len(r.deleted)
    /\ deleted' = deleted \o r.deleted
    /\ blocks_deleted(r.deleted, k)
    /\ shared' = [shared EXCEPT !.cids = @ \ SeqToSet(r.deleted)]
    /\ UNCHANGED <<config, metrics, calls, aliases, pins>>

\* A pass during which the owner of the receiver does nothing: every send
\* finds the receiver alive, or every send finds it gone.
gc_pass(r) == gc_pass_sending(r, IF rx THEN Len(r.deleted) ELSE 0)

\* One incremental_delete_orphaned pass committing.
orphaned_pass(r) ==
    /\ orphaned' = orphaned - r.reclaimed
    /\ UNCHANGED <<config, shared, rx, metrics, calls, blocks, aliases, pins, lru, events, deleted>>

\* Where the caller is when a pass of the first loop of evict() starts: about
\* to call evict() (after none, or after one that returned Ok, an error, was
\* dropped or was cut off), or between two passes of the loop.
InFirstLoop == {"idle", "returned", "aborted", "dropped", "gc"} \cup Errors

\* Mutant of evict_gc: one incremental_gc pass, whatever it reports.
evict_gc_once ==
    /\ pc \in InFirstLoop
    /\ gc_pass(incremental_gc(config.gc_min_blocks, config.gc_target_duration))
    /\ pc' = "orphaned"
    /\ quiet' = IF pc = "gc" THEN quiet ELSE TRUE

\* Mutant of evict_gc: the two budget arguments are passed in the wrong order.
evict_gc_swapped ==
    /\ pc \in InFirstLoop
    /\ LET r == incremental_gc(config.gc_target_duration, config.gc_min_blocks)
       IN  /\ gc_pass(r)
           /\ pc' = IF r.done THEN "orphaned" ELSE "gc"
    /\ quiet' = IF pc = "gc" THEN quiet ELSE TRUE

\* StorageService::evict, first loop: incremental_gc until a pass is done.
evict_gc ==
    /\ pc \in InFirstLoop
    /\ LET r == incremental_gc(config.gc_min_blocks, config.gc_target_duration)
       IN  /\ gc_pass(r)
           /\ pc' = IF r.done THEN "orphaned" ELSE "gc"
    /\ quiet' = IF pc = "gc" THEN quiet ELSE TRUE

\* StorageService::evict, second loop: incremental_delete_orphaned until a
\* pass is done, then Ok(()).
evict_orphaned ==
    /\ pc = "orphaned"
    /\ LET r == incremental_delete_orphaned(config.gc_min_blocks,
                                            config.gc_target_duration)
       IN  /\ orphaned_pass(r)
           /\ pc' = IF r.done THEN "returned" ELSE "orphaned"
    /\ UNCHANGED quiet

\* StorageService::evict, first loop: a pass answers Err(e), which the ?
\* returns to the caller at once.  The failed pass leaves the store as it was.
evict_gc_fails(e) ==
    /\ pc \in InFirstLoop
    /\ pc' = e
    /\ UNCHANGED <<config, rx, metrics, calls, blocks, aliases, pins, lru, orphaned,
                   events, deleted, quiet, shared>>

\* Mutant of evict_orphaned_fails: the error is swallowed and evict() answers
\* Ok(()).
evict_orphaned_swallows(e) ==
    /\ pc = "orphaned"
    /\ pc' = "returned"
    /\ UNCHANGED <<config, rx, metrics, calls, blocks, aliases, pins, lru, orphaned,
                   events, deleted, quiet, shared>>

\* StorageService::evict, second loop: a pass answers Err(e).
evict_orphaned_fails(e) ==
    /\ pc = "orphaned"
    /\ pc' = e
    /\ UNCHANGED <<config, rx, metrics, calls, blocks, aliases, pins, lru, orphaned,
                   events, deleted, quiet, shared>>

\* Mutant of aborted_pass: the pass that is cut off took the blocks of S from
\* the whole store, protected or not.
aborted_pass_stored(S, k) ==
    /\ S \subseteq Stored
    /\ S # {}
    /\ gc_pass_sending([deleted |-> Without(lru, Cids \ S), done |-> FALSE], k)

\* An incremental_gc pass that is cut off part-way (the process stops during
\* the pass), with the blocks of S deleted out of those it was going to
\* delete and k of its sends finding the receiver alive: the blocks of S are
\* gone, in the order of the pass, and nothing of the pass is kept for the
\* next one.
aborted_pass(S, k) ==
    LET r == incremental_gc(config.gc_min_blocks, config.gc_target_duration)
    IN  /\ S \subseteq SeqToSet(r.deleted)
        /\ S # SeqToSet(r.deleted)
        /\ gc_pass_sending([deleted |-> Without(r.deleted, Cids \ S),
                            done |-> FALSE], k)

\* The store is cut off during an incremental_gc pass of evict(), with the
\* blocks of S deleted: the call never returns.  A pass that is rolled back
\* whole (S empty) leaves no trace of the call.
gc_aborted(S) ==
    /\ pc \in InFirstLoop
    /\ pc' = IF S = {} THEN "idle" ELSE "aborted"
    /\ quiet' = FALSE
    /\ \E k \in 0..Cardinality(S) : aborted_pass(S, k)

\* StorageService::evict, its future dropped while it awaits a pass of the
\* first loop: the pass is on the blocking thread and runs to its end, k of
\* its sends finding the receiver alive; its answer is thrown away and the
\* call never returns.
evict_dropped_gc ==
    /\ pc \in InFirstLoop
    /\ pc' = "dropped"
    /\ quiet' = FALSE
    /\ LET r == incremental_gc(config.gc_min_blocks, config.gc_target_duration)
       IN  \E k \in 0..Len(r.deleted) : gc_pass_sending(r, k)

\* StorageService::evict, its future dropped while it awaits a pass of the
\* second loop: that pass runs to its end too, and the call never returns.
evict_dropped_orphaned ==
    /\ pc = "orphaned"
    /\ pc' = "dropped"
    /\ quiet' = FALSE
    /\ orphaned_pass(incremental_delete_orphaned(config.gc_min_blocks,
                                                 config.gc_target_duration))

\* StorageService::evict, a pass of its first loop during which the owner of
\* the UnboundedReceiver drops it, after k sends of blocks_deleted.
evict_gc_receiver_dropped(k) ==
    /\ pc \in InFirstLoop
    /\ rx
    /\ LET r == incremental_gc(config.gc_min_blocks, config.gc_target_duration)
       IN  /\ k < Len(r.deleted)
           /\ gc_pass_sending(r, k)
           /\ pc' = IF r.done THEN "orphaned" ELSE "gc"
    /\ quiet' = IF pc = "gc" THEN quiet ELSE TRUE

\* The owner of the UnboundedReceiver drops it.
drop_receiver ==
    /\ rx
    /\ rx' = FALSE
    /\ UNCHANGED <<config, metrics, calls, blocks, aliases, pins, lru, orphaned, events,
                   deleted, pc, quiet, shared>>

\* The gc_loop spawned by StorageService::open runs an incremental_gc pass
\* and an incremental_delete_orphaned pass every gc_interval, with the
\* configured budget.  Any number of foreground steps may fall between two of
\* its passes, so each pass is a step that may happen at any time.
gc_loop_gc ==
    /\ gc_pass(incremental_gc(config.gc_min_blocks, config.gc_target_duration))
    /\ UNCHANGED <<pc, quiet>>

gc_loop_orphaned ==
    /\ orphaned_pass(incremental_delete_orphaned(config.gc_min_blocks,
                                                 config.gc_target_duration))
    /\ UNCHANGED <<pc, quiet>>

\* ------------------------------------------------------------ specification
Insert == \E i \in Cids : insert(create_block(i), None)
InsertPinned == \E i \in Cids, p \in Handles \cup {None} : insert(create_block(i), p)
InsertUnchecked == \E b \in UncheckedBlocks : insert(b, None)
Get == \E c \in Cids : get(c)
Alias == \E n \in Names, t \in Cids \cup {None} : alias(n, t)
AliasOne == \E t \in Cids \cup {None} : alias(1, t)
TempPin == \E h \in Handles : temp_pin(h)
AssignTempPin == \E h \in Handles, S \in SUBSET Cids : assign_temp_pin(h, S)
DropTempPin == \E h \in Handles : release_temp_pin(h)

ObserveQueryCounts ==
    \E s \in Slots, q \in Requests : observe_query_counts(s, q)
QueryAnswers == \E s \in Slots : query_answers(s)
QueryFails == \E s \in Slots, e \in Errors : query_fails(s, e)
ObserveQueryReturns == \E s \in Slots : observe_query_returns(s)
ObserveQueryDropped == \E s \in Slots : observe_query_dropped(s)

\* Clients that protect blocks with aliases only, under every name.
Next ==
    \/ Insert
    \/ Get
    \/ Alias
    \/ evict_gc
    \/ evict_orphaned
    \/ gc_loop_gc
    \/ gc_loop_orphaned

Spec == Init /\ [][Next]_vars

\* Clients that also use temp pins, and one alias name.
NextPins ==
    \/ InsertPinned
    \/ Get
    \/ AliasOne
    \/ TempPin
    \/ AssignTempPin
    \/ DropTempPin
    \/ evict_gc
    \/ evict_orphaned
    \/ gc_loop_gc
    \/ gc_loop_orphaned

SpecPins == Init /\ [][NextPins]_vars

EvictGcFails == \E e \in Errors : evict_gc_fails(e)
EvictOrphanedFails == \E e \in Errors : evict_orphaned_fails(e)
EvictGcReceiverDropped ==
    \E k \in 0..(MaxInserts - 1) : evict_gc_receiver_dropped(k)
GcAborted == \E S \in SUBSET Cids : gc_aborted(S)

\* Clients with one alias name, who may drop the future of evict(), a store
\* whose passes may fail or be cut off, and a receiver that is slow (it
\* takes no event) or is dropped, between two passes or during one; the GC
\* runs in evict() (a gc_interval longer than the behaviour).
NextFaults ==
    \/ Insert
    \/ AliasOne
    \/ evict_gc
    \/ evict_orphaned
    \/ EvictGcFails
    \/ EvictOrphanedFails
    \/ GcAborted
    \/ evict_dropped_gc
    \/ evict_dropped_orphaned
    \/ EvictGcReceiverDropped
    \/ drop_receiver

SpecFaults == Init /\ [][NextFaults]_vars

\* Clients that also insert blocks built with Block::new_unchecked, whose
\* references may close a cycle.
NextCyclic ==
    \/ Insert
    \/ InsertUnchecked
    \/ Alias
    \/ evict_gc
    \/ evict_orphaned

SpecCyclic == Init /\ [][NextCyclic]_vars

\* The service with the history of shared blocks in view.
InitShared ==
    /\ config \in {StorageConfig_new(n) : n \in 0..MaxCacheBlocks}
    /\ blocks = [c \in Cids |-> NoBlock]
    /\ aliases = [n \in Names |-> None]
    /\ pins = [h \in Handles |-> NoPin]
    /\ lru = <<>>
    /\ orphaned = 0
    /\ events = <<>>
    /\ deleted = <<>>
    /\ pc = "idle"
    /\ quiet = FALSE
    /\ rx = TRUE
    /\ metrics = Untracked
    /\ calls = [s \in Slots |-> NoCall]
    /\ shared = [tracked |-> TRUE, cids |-> {}]

\* Clients that set and clear aliases under every name and call evict().
NextShared ==
    \/ Insert
    \/ Alias
    \/ evict_gc
    \/ evict_orphaned

SpecShared == InitShared /\ [][NextShared]_vars

\* The service with the registry in view.
InitMetrics ==
    /\ config \in {StorageConfig_new(n) : n \in 0..MaxCacheBlocks}
    /\ blocks = [c \in Cids |-> NoBlock]
    /\ aliases = [n \in Names |-> None]
    /\ pins = [h \in Handles |-> NoPin]
    /\ lru = <<>>
    /\ orphaned = 0
    /\ events = <<>>
    /\ deleted = <<>>
    /\ pc = "idle"
    /\ quiet = FALSE
    /\ rx = TRUE
    /\ metrics = Registry
    /\ calls = [s \in Slots |-> NoCall]
    /\ shared = [tracked |-> FALSE, cids |-> {}]

\* Concurrent callers: every facade call but evict() goes through
\* observe_query, is counted at its first poll, waits for the blocking
\* thread, and returns at a later poll unless its future is dropped; store
\* queries may fail.  No GC pass falls in the behaviour (a gc_interval longer
\* than it, and no call of evict()).
InitConcurrent ==
    /\ InitMetrics
    /\ config = StorageConfig_new(MaxCacheBlocks)

NextMetrics ==
    \/ ObserveQueryCounts
    \/ QueryAnswers
    \/ QueryFails
    \/ ObserveQueryReturns
    \/ ObserveQueryDropped

SpecMetrics == InitConcurrent /\ [][NextMetrics]_vars

\* A client that awaits each of its calls before it makes the next, store
\* queries that may fail, and the GC in evict().
ObserveQueryCountsAlone ==
    /\ \A s \in Slots : calls[s] = NoCall
    /\ ObserveQueryCounts

NextSerial ==
    \/ ObserveQueryCountsAlone
    \/ QueryAnswers
    \/ QueryFails
    \/ ObserveQueryReturns
    \/ evict_gc
    \/ evict_orphaned

SpecSerial == InitMetrics /\ [][NextSerial]_vars

\* ------------------------------------------------------------ properties
\* A step of the garbage collector, in evict() or in the background loop.
GcStep == evict_gc \/ evict_orphaned \/ gc_loop_gc \/ gc_loop_orphaned

\* evict() has returned Ok and no insert, alias or pin call fell in it or
\* after it.
EvictReturned == pc = "returned" /\ quiet

\* The store is within both configured limits.
WithinLimits ==
    /\ Cardinality(Stored) <= config.cache_size_blocks
    /\ SizeOf(Stored) <= config.cache_size_bytes

\* C1: no step removes a block that is, when the step commits, an alias
\* target, in a live temp pin, or reachable from one of those roots through
\* block references.
C1_NoProtectedBlockDeleted ==
    [][\A c \in Cids :
          (blocks[c] # NoBlock /\ blocks'[c] = NoBlock) => c \notin Protected]_vars

\* C1 witness: the GC has deleted a block, the store is still over its block
\* limit, and what is left is held by a temp pin and by references from it.
C1_Witness ==
    /\ deleted # <<>>
    /\ Cardinality(Stored) > config.cache_size_blocks
    /\ Stored \subseteq Protected
    /\ \E h \in Handles : pins[h].live /\ pins[h].cids \cap Stored # {}
    /\ \E c \in Stored : c \notin Roots

\* C2 as stated: once evict() has returned with no concurrent mutation, every
\* block still stored is reachable from an alias or protected by a temp pin.
C2_Original == EvictReturned => Stored \subseteq Protected

\* C2 amended: once evict() has returned with no concurrent mutation, either
\* every block still stored is protected or the store is within its size
\* limits; and no step of a quiet evict() removes a protected block.
C2_EvictFixpoint ==
    /\ [](EvictReturned => (Stored \subseteq Protected \/ WithinLimits))
    /\ [][quiet' => \A c \in Stored \cap Protected : blocks'[c] = blocks[c]]_vars

\* C2 witness: evict() returned after deleting a block; a protected block and
\* an unprotected one are both still stored.
C2_Witness ==
    /\ EvictReturned
    /\ deleted # <<>>
    /\ Stored \cap Protected # {}
    /\ Stored \ Protected # {}

\* C3: a GC step taken while the store is within both configured limits
\* deletes nothing, and every stored block no root protects is still
\* reported by reverse_alias as present with no alias.
C3_NoEvictionWithinLimits ==
    [][\/ /\ blocks' = blocks
          /\ \A c \in Stored \ Protected : (reverse_alias(c))' = {}
       \/ ~WithinLimits
       \/ ~GcStep]_vars

\* C3 witness: evict() returned on a store holding exactly its block limit,
\* nothing was ever deleted, and an unprotected block is still there.
C3_Witness ==
    /\ EvictReturned
    /\ deleted = <<>>
    /\ config.cache_size_blocks > 0
    /\ Cardinality(Stored) = config.cache_size_blocks
    /\ \E c \in Stored \ Protected : reverse_alias(c) = {}

\* cid is the most recently accessed block after the step, and the order of
\* the others is as before.
Refreshed(cid) ==
    /\ lru' # <<>>
    /\ lru'[Len(lru')] = cid
    /\ Without(lru', {cid}) = Without(lru, {cid})

\* C4: an insert or a get of a stored block makes it the most recent one and
\* keeps the order of the others; and an evict() that starts on a store of
\* unprotected blocks alone, one block over the block limit, deletes exactly
\* the least recently accessed block and keeps the others.
C4_LruEviction ==
    [][/\ \A c \in Cids :
             (insert(create_block(c), None) \/ (contains(c) /\ get(c)))
                 => Refreshed(c)
       /\ \/ pc = "gc"
          \/ pc' # "orphaned"
          \/ Stored \cap Protected # {}
          \/ Cardinality(Stored) # config.cache_size_blocks + 1
          \/ SizeOf(Stored) > config.cache_size_bytes
          \/ ~evict_gc
          \/ /\ blocks' = [blocks EXCEPT ![Head(lru)] = NoBlock]
             /\ deleted' = deleted \o <<Head(lru)>>
             /\ lru' = Tail(lru)]_vars

\* C4 witness: under a limit of 2, evict() deleted block 2 and kept blocks 3
\* and 1, block 1 being the most recently accessed.
C4_Witness ==
    /\ config.cache_size_blocks = 2
    /\ pc = "returned"
    /\ deleted = <<2>>
    /\ lru = <<3, 1>>
    /\ Roots = {}

\* C5 as stated: a block that two aliases reached at once is deleted by the
\* next evict() once both aliases are removed: when evict() has returned and
\* no alias is set, no such block is left in the store.
C5_Original ==
    (EvictReturned /\ \A n \in Names : aliases[n] = None)
        => shared.cids \cap Stored = {}

\* C5 amended: removing one of two aliases that reach a stored block leaves
\* it protected, and removing the last alias that reaches it leaves it
\* present with no alias; no step deletes a stored block that an alias
\* reaches; a block that two aliases reached at once is in the store until the
\* GC deletes it, and answers the empty list while no alias is set; and an
\* evict() that returns while no alias is set leaves the store within its
\* size limits (empty under a block limit of 0).
C5_AliasRefcount ==
    /\ [][\A n \in Names, c \in Stored :
             alias(n, None) =>
                 /\ (\E m \in Names \ {n} : m \in reverse_alias(c))
                        => (reverse_alias(c))' = reverse_alias(c) \ {n}
                           /\ (reverse_alias(c))' # {}
                 /\ reverse_alias(c) \subseteq {n} => (reverse_alias(c))' = {}]_vars
    /\ [][\A c \in Stored :
             reverse_alias(c) # {} => blocks'[c] = blocks[c]]_vars
    /\ [](\A c \in shared.cids :
             /\ c \in Stored
             /\ (\A n \in Names : aliases[n] = None) => reverse_alias(c) = {})
    /\ []((EvictReturned /\ \A n \in Names : aliases[n] = None /\ Roots = {})
              => WithinLimits /\ (config.cache_size_blocks = 0 => Stored = {}))

\* C5 witness: a and b -> a were both reached by the aliases x and y at once;
\* both aliases have been removed and an evict() has since returned, having
\* deleted another block: a and b are still in the store, with no alias.
C5_Witness ==
    /\ EvictReturned
    /\ \A n \in Names : aliases[n] = None
    /\ {1, 2} \subseteq shared.cids
    /\ {1, 2} \subseteq Stored
    /\ reverse_alias(1) = {} /\ reverse_alias(2) = {}
    /\ deleted # <<>>

RECURSIVE ReachesIn(_, _, _)
\* cid is target or is referenced from it along at most k stored blocks.
ReachesIn(target, cid, k) ==
    \/ target = cid
    \/ /\ k > 0
       /\ target \in Stored
       /\ \E d \in references(blocks[target]) : ReachesIn(d, cid, k - 1)

\* C6: a stored block has the alias names of every target that references it
\* directly or through other stored blocks.  With a, b -> a, c -> a stored
\* and no alias but x and y: under x -> b, y -> c all three are protected;
\* under y -> c alone b has no alias while a and c have y; with no alias all
\* three are present and unprotected.
C6_TransitivePin ==
    /\ \A n \in Names, c \in Stored :
          (aliases[n] # None /\ ReachesIn(aliases[n], c, MaxCid))
              => n \in reverse_alias(c)
    /\ ({1, 2, 3} \subseteq Stored /\ \A n \in Names \ {1, 2} : aliases[n] = None) =>
          /\ (aliases[1] = 2 /\ aliases[2] = 3) =>
                /\ reverse_alias(1) = {1, 2}
                /\ reverse_alias(2) = {1}
                /\ reverse_alias(3) = {2}
          /\ (aliases[1] = None /\ aliases[2] = 3) =>
                /\ reverse_alias(1) = {2}
                /\ reverse_alias(2) = {}
                /\ reverse_alias(3) = {2}
          /\ (aliases[1] = None /\ aliases[2] = None) =>
                /\ reverse_alias(1) = {}
                /\ reverse_alias(2) = {}
                /\ reverse_alias(3) = {}

\* C6 witness: a, b, c stored, x removed, y -> c: a is protected through c, b
\* is not protected.
C6_Witness ==
    /\ {1, 2, 3} \subseteq Stored
    /\ aliases[1] = None
    /\ aliases[2] = 3
    /\ reverse_alias(1) = {2}
    /\ reverse_alias(2) = {}

\* The blocks a step removes from the store.
Gone == {c \in Cids : blocks[c] # NoBlock /\ blocks'[c] = NoBlock}

\* C7: the events sent are exactly the deletions, in deletion order: every
\* step appends to the channel one Remove per block it removes, in the order
\* the GC deleted them, and nothing else.
C7_RemoveEvents ==
    /\ [](events = deleted)
    /\ [][/\ Len(events') = Len(events) + Cardinality(Gone)
           /\ SubSeq(events', 1, Len(events)) = events
           /\ SeqToSet(SubSeq(events', Len(events) + 1, Len(events'))) = Gone]_vars

\* C7 witness: evict() has returned and three Remove events of two or more
\* different blocks are in the channel.
C7_Witness ==
    /\ pc = "returned"
    /\ Len(events) = MaxInserts
    /\ Cardinality(SeqToSet(events)) > 1

\* C8 as stated: a pass that does not report done deletes at least one block
\* (reclaims at least one row), so that repeating it with no mutation in
\* between reaches done and both loops of evict() end.
C8_Original ==
    LET g == incremental_gc(config.gc_min_blocks, config.gc_target_duration)
        o == incremental_delete_orphaned(config.gc_min_blocks,
                                         config.gc_target_duration)
    IN  /\ g.done \/ g.deleted # <<>>
        /\ o.done \/ o.reclaimed > 0

\* The cids the GC deletes in a step.
NewlyDeleted == SeqToSet(SubSeq(deleted', Len(deleted) + 1, Len(deleted')))

\* C9: after insert(block), get(block.cid) answers Some of exactly the bytes
\* inserted, and keeps answering so across every step in which the GC does
\* not delete the block; inserting a block that is stored already leaves the
\* stored blocks and their bytes as they are.
C9_RoundTrip ==
    [][\A c \in Cids :
          LET block == create_block(c)
              inserted == \E p \in Handles \cup {None} : insert(block, p)
          IN  /\ (get_returns(c))' = block.data \/ ~inserted
              /\ blocks' = blocks \/ ~contains(c) \/ ~inserted
              /\ \/ (get_returns(c))' = block.data
                 \/ get_returns(c) # block.data
                 \/ c \in NewlyDeleted]_vars

\* C9 witness: block 4 is stored, answers its bytes, and the GC has deleted
\* another block since the service was opened.
C9_Witness ==
    /\ get_returns(4) = <<4, 2>>
    /\ deleted # <<>>
    /\ 4 \notin SeqToSet(deleted)

\* C10: missing_blocks(cid) is exactly the set of absent cids that the block
\* cid references directly or through stored blocks.  With block 4 -> 2 -> 1:
\* the absent 1 is reported through the stored 2, an absent 2 hides 1, and
\* nothing is reported when 4, 2 and 1 are all stored.
C10_MissingBlocks ==
    /\ \A cid \in Cids :
          missing_blocks(cid) =
              {d \in Cids \ Stored : d # cid /\ ReachesIn(cid, d, MaxCid)}
    /\ \A cid \in Stored :
          references(blocks[cid]) \ Stored \subseteq missing_blocks(cid)
    /\ ({2, 4} \subseteq Stored /\ 1 \notin Stored) => missing_blocks(4) = {1}
    /\ (4 \in Stored /\ 2 \notin Stored) => missing_blocks(4) = {2}
    /\ {1, 2, 4} \subseteq Stored => missing_blocks(4) = {}

\* C10 witness: 4 and 2 are stored, 1 is not: missing_blocks(4) reports 1.
C10_Witness ==
    /\ {2, 4} \subseteq Stored
    /\ 1 \notin Stored
    /\ missing_blocks(4) = {1}

\* A stored block that its own references lead back to.
OnCycle(c) == \E d \in references(blocks[c]) : ReachesIn(d, c, MaxCid)

\* C11: reverse_alias(cid) is None exactly when no block is stored under cid
\* (never inserted, or deleted by the GC); for a stored block it is exactly
\* the set of alias names whose target is cid or references it directly or
\* through stored blocks, the empty set when there is none.  The answer is
\* there when the references of the stored blocks close a cycle: two blocks
\* that reach each other have the same names, and a block on a cycle has the
\* names whose target reaches any block of it.
C11_ReverseAlias ==
    /\ \A c \in Cids : reverse_alias(c) = NoneNames <=> c \notin Stored
    /\ \A c \in SeqToSet(deleted) \ Stored : reverse_alias(c) = NoneNames
    /\ \A c \in Stored :
          reverse_alias(c) =
              {n \in Names : aliases[n] # None /\ ReachesIn(aliases[n], c, MaxCid)}
    /\ \A c \in Stored :
          (\A n \in Names : aliases[n] = None) => reverse_alias(c) = {}
    /\ \A c \in Stored, d \in Stored :
          (ReachesIn(c, d, MaxCid) /\ ReachesIn(d, c, MaxCid))
              => reverse_alias(c) = reverse_alias(d)
    /\ \A c \in Stored :
          OnCycle(c) => reverse_alias(c) \subseteq Names

\* C11 witness: block 1 links to block 2 and block 2 to block 1, both stored;
\* one alias targets one of them and both answer its name; a block the GC
\* deleted answers None.
C11_Witness ==
    /\ {1, 2} \subseteq Stored
    /\ 2 \in references(blocks[1]) /\ 1 \in references(blocks[2])
    /\ OnCycle(1) /\ OnCycle(2)
    /\ \E n \in Names : /\ aliases[n] = 2
                        /\ reverse_alias(1) = {n}
                        /\ reverse_alias(2) = {n}
    /\ \E c \in SeqToSet(deleted) \ Stored : reverse_alias(c) = NoneNames

\* C12: a name has one target at most: alias(name, Some(cid)) makes
\* resolve(name) answer Some(cid) whatever the name had before, alias(name,
\* None) makes it answer None, and no other name changes.  A step that
\* changes the stored blocks works on one alias table: it leaves the table as
\* it is, and every block reached from the current target of a name stays.
C12_AliasTable ==
    [][/\ \A n \in Names, t \in Cids \cup {None} :
             \/ /\ (resolve(n))' = t
                /\ \A m \in Names \ {n} : (resolve(m))' = resolve(m)
             \/ ~alias(n, t)
       /\ \/ blocks' = blocks
          \/ /\ aliases' = aliases
             /\ \A n \in Names, c \in Stored :
                   (aliases[n] # None /\ ReachesIn(aliases[n], c, MaxCid))
                       => blocks'[c] = blocks[c]]_vars

\* C12 witness: the name x resolves to block 3, which a GC pass kept on a
\* store over its block limit while deleting block 2.
C12_Witness ==
    /\ resolve(1) = 3
    /\ 3 \in Stored
    /\ 2 \in SeqToSet(deleted) \ Stored
    /\ Cardinality(Stored) > config.cache_size_blocks

\* The cids reachable from the alias targets and from the live temp pins
\* other than h.
ProtectedBesides(h) ==
    descendant_of(({aliases[n] : n \in Names} \ {None})
                    \cup UNION {pins[k].cids : k \in {j \in Handles \ {h} : pins[j].live}})

\* C13: a block inserted with a temp pin, or assigned to one, is in the pin's
\* protected set and a GC root; a stored block in the set of a live pin survives every
\* step, whatever the size limits; and releasing the handle is all it takes
\* to end the protection: a stored block of the released pin that no alias
\* and no other live pin reaches is a candidate of the next GC pass.
C13_TempPin ==
    [][\A h \in Handles :
          /\ \A c \in pins[h].cids : blocks'[c] = blocks[c] \/ blocks[c] = NoBlock
          /\ \A c \in Cids :
                \/ ~insert(create_block(c), h)
                \/ c \in pins'[h].cids /\ c \in Roots' /\ c \in Stored'
          /\ \A c \in Cids :
                \/ ~assign_temp_pin(h, {c})
                \/ c \in pins'[h].cids /\ c \in Roots'
          /\ \/ pins'[h].live
             \/ ~pins[h].live
             \/ /\ release_temp_pin(h)
                /\ \A c \in (pins[h].cids \cap Stored) \ ProtectedBesides(h) :
                      c \in SeqToSet(candidates')]_vars

\* C13 witness: with no alias set, the GC has deleted a block and the store
\* is still over its block limit, holding a block that a live temp pin
\* protects.
C13_Witness ==
    /\ \A n \in Names : aliases[n] = None
    /\ deleted # <<>>
    /\ Cardinality(Stored) > config.cache_size_blocks
    /\ \E h \in Handles : pins[h].live /\ pins[h].cids \cap Stored # {}
    /\ pc = "returned"

\* C14 as stated: a call is counted once under its label, when observe_query
\* starts; a duration sample is recorded under a label only in a step that
\* hands the Ok answer of a call of that label to its caller; and a step
\* that hands out an answer hands out the answer of the query.
C14_Original ==
    [][/\ \A name \in OpNames :
             \/ metrics'.total[name] = metrics.total[name]
             \/ /\ metrics'.total[name] = metrics.total[name] + 1
                /\ \E s \in Slots :
                      /\ calls[s] = NoCall
                      /\ calls'[s].name = name /\ calls'[s].stage = "counted"
       /\ \A name \in OpNames :
             \/ metrics'.samples[name] = metrics.samples[name]
             \/ \E s \in Slots :
                   /\ calls[s].name = name
                   /\ calls[s].stage = "answered"
                   /\ calls[s].res.ok
                   /\ metrics'.res = calls[s].res
                   /\ calls'[s] = NoCall]_vars

\* C15: a step that removes a block from the store is a GC pass of evict()
\* or of the background loop; no step of a facade call that goes through
\* observe_query removes one; and removing the only alias that reaches a
\* stored block leaves the block stored, reverse_alias answering Some(empty).
C15_OnlyGcDeletes ==
    [][/\ Gone = {} \/ GcStep
       /\ (metrics' = metrics /\ calls' = calls) \/ Stored \subseteq Stored'
       /\ \A s \in Slots, c \in Stored :
             \/ calls[s].name # "alias" \/ calls[s].b # None
             \/ reverse_alias(c) # {calls[s].a}
             \/ ~query_answers(s)
             \/ blocks'[c] = blocks[c] /\ (reverse_alias(c))' = {}]_vars

\* C15 witness: a block was inserted, aliased, and its alias removed, each
\* call returning Ok; no GC pass has deleted anything, and the block is
\* stored with no alias.
C15_Witness ==
    /\ metrics.total["insert"] = 1
    /\ metrics.total["alias"] = 2
    /\ metrics.samples["alias"] = 2
    /\ \A s \in Slots : calls[s] = NoCall
    /\ deleted = <<>>
    /\ \A n \in Names : aliases[n] = None
    /\ \E c \in Stored : reverse_alias(c) = {}

\* The configured budget lets a pass delete at least one block.
Productive ==
    config.gc_min_blocks >= 1 /\ ~elapsed_exceeds(config.gc_target_duration)

\* What one pass with the permissive defaults deletes from the current store,
\* and the blocks it leaves.
FullSweep == incremental_gc(UsizeMax, DurationMax).deleted
FullSweepStored == Stored \ SeqToSet(FullSweep)

\* The cids the GC deletes in a step, in order.
DeletedNow == SubSeq(deleted', Len(deleted) + 1, Len(deleted'))

\* C16: under a budget that lets a pass delete a block, every incremental_gc
\* pass of evict() deletes the next blocks the full sweep would delete and
\* leaves the outcome of the full sweep as it was; a pass that is not done
\* has deleted a block; and when a pass reports done the stored blocks and
\* the cache tracker are those the full sweep would have left.  The second
\* loop of evict() removes no block.
C16_BudgetIndependent ==
    [][/\ \/ ~Productive
          \/ ~evict_gc
          \/ /\ DeletedNow = SubSeq(FullSweep, 1, Len(DeletedNow))
             /\ FullSweepStored' = FullSweepStored
             /\ pc' = "gc" => DeletedNow # <<>>
             /\ pc' = "orphaned" =>
                   /\ Stored' = FullSweepStored
                   /\ lru' = Without(lru, SeqToSet(FullSweep))
       /\ \/ blocks' = blocks /\ lru' = lru
          \/ ~evict_orphaned]_vars

\* C16 witness: evict() has returned under a budget of one block per pass
\* after two or more blocks were deleted, with no mutation in between, and
\* blocks are left in the store.
C16_Witness ==
    /\ EvictReturned
    /\ config.gc_min_blocks = 1
    /\ Len(deleted) >= 2
    /\ Stored # {}

\* What a pass with the permissive defaults deletes from the store that is
\* left when the candidates of S are gone.
SweepAfter(S) ==
    gc_loop(Without(candidates, S), 0,
            Cardinality(Stored \ S), SizeOf(Stored \ S), UsizeMax, DurationMax)

\* What the pass of evict() is going to delete, and whether the blocks of S
\* are the first ones of it.
PassDeletes ==
    incremental_gc(config.gc_min_blocks, config.gc_target_duration).deleted
IsPrefix(S) == S = SeqToSet(SubSeq(PassDeletes, 1, Cardinality(S)))

C18_EvictOrder ==
    [][LET g == incremental_gc(config.gc_min_blocks, config.gc_target_duration)
           o == incremental_delete_orphaned(config.gc_min_blocks,
                                            config.gc_target_duration)
       IN  /\ (pc' = "gc" /\ pc' # pc) => pc \in InFirstLoop /\ ~g.done
           /\ (pc' = "gc" /\ pc' = pc /\ deleted' # deleted) => ~g.done
           /\ (pc' = "orphaned" /\ pc' # pc) => pc \in InFirstLoop /\ g.done
           /\ (pc' = "orphaned" /\ pc' = pc /\ orphaned' # orphaned) => ~o.done
           /\ (pc' = "returned" /\ pc' # pc) => pc = "orphaned" /\ o.done
           /\ (pc' \in Errors /\ pc' # pc) =>
                 /\ pc \in InFirstLoop \cup {"orphaned"}
                 /\ blocks' = blocks /\ orphaned' = orphaned /\ deleted' = deleted
           /\ blocks' = blocks \/ Gone = {} \/ pc \in InFirstLoop
           /\ orphaned' >= orphaned \/ pc = "orphaned"
           /\ \A e \in Errors :
                 \/ pc' = e /\ blocks' = blocks /\ orphaned' = orphaned
                 \/ ~(evict_gc_fails(e) \/ evict_orphaned_fails(e))]_vars

\* C18 witness: evict() returned an error while rows were left to reclaim,
\* after its first loop had deleted blocks.
C18_Witness ==
    /\ pc \in Errors
    /\ orphaned > 0
    /\ deleted # <<>>
    /\ quiet

\* C19: the channel never holds a send up and never loses an event for want
\* of room: while the receiver is alive, every block the GC has deleted has
\* its Remove in the queue, whatever the number of events waiting.  A step
\* that deletes blocks queues, in that same step and in order, one Remove for
\* each block sent while the receiver is alive: all of them when it lives
\* through the step, none when it was gone before, the first j when it is
\* dropped during the step; in every case every deleted block is gone from
\* the store and from the cache tracker, and evict() goes on without an
\* error.
C19_SendNeverBlocks ==
    /\ [](rx => events = deleted)
    /\ [][\/ Gone = {}
          \/ /\ \E j \in 0..Len(DeletedNow) :
                   /\ events' = events \o SubSeq(DeletedNow, 1, j)
                   /\ rx' <=> (rx /\ j = Len(DeletedNow))
                   /\ rx \/ j = 0
             /\ SeqToSet(DeletedNow) = Gone
             /\ Len(DeletedNow) = Cardinality(Gone)
             /\ lru' = Without(lru, Gone)
             /\ pc' \notin Errors]_vars

\* C19 witness: the receiver is dropped after it was sent a Remove, two
\* Remove events or more were not queued for blocks deleted since, and
\* evict() has returned Ok.
C19_Witness ==
    /\ ~rx
    /\ events # <<>>
    /\ Len(deleted) >= Len(events) + 2
    /\ SeqToSet(lru) = Stored
    /\ pc = "returned"

====
